---- MODULE Spec2Model ----
(***************************************************************************)
(* A model of geokit/_core/rasterutil.py: point sampling (pointValues,     *)
(* pointValue), the gradient calculator (gradient), createRaster and       *)
(* mutateValues over a one-band raster dataset.                            *)
(*                                                                         *)
(* Conventions of the model                                                *)
(*  - Geographic coordinates (point x/y, raster origin and bounds) are     *)
(*    integers counted in HALF units, so that the half-pixel terms of the  *)
(*    code (0.5*pixelWidth) stay integral.  Pixel sizes are in whole       *)
(*    units.  A quotient a/b of the code is the pair <<a, b>> in lowest    *)
(*    terms (Rat); floating point is taken as exact.                       *)
(*  - A band is a sequence of storage rows, each a sequence of cells;      *)
(*    storage index i (0-based, as in numpy/GDAL) is element i+1.          *)
(*  - sqrt and arctan2 are kept symbolic: Sqrt(q) by its radicand,         *)
(*    Arctan2(y, x) by the direction of the ray (y, x).                    *)
(***************************************************************************)
EXTENDS Integers, Sequences, FiniteSets, TLC

VARIABLES
    raster,    \* the source dataset handed to every call
    op,        \* the last call: its name and arguments as the caller gave them
    points,    \* the caller's point objects as they are after the call
    res        \* what the last call returned or raised

vars == <<raster, op, points, res>>

----------------------------------------------------------------------------
(* Bounds of the model *)

MaxCols == 3
MaxRows == 3
MaxPoints == 2

(* Program constants *)

LinearWin == 2
CubicWin == 4
DefaultWin == 3
ByteModulus == 256

----------------------------------------------------------------------------
(* Arithmetic helpers *)

Abs(n) == IF n < 0 THEN -n ELSE n

Min(a, b) == IF a < b THEN a ELSE b

RECURSIVE Gcd(_, _)
Gcd(a, b) == IF b = 0 THEN a ELSE Gcd(b, a % b)

\* the quotient n/d (d # 0) in lowest terms with a positive denominator
Rat(n, d) ==
    LET g == Gcd(Abs(n), Abs(d))
        s == IF d < 0 THEN -1 ELSE 1
    IN  <<(s * n) \div g, (s * d) \div g>>

RatAdd(p, q) == Rat(p[1] * q[2] + q[1] * p[2], p[2] * q[2])

RatMul(p, q) == Rat(p[1] * q[1], p[2] * q[2])

\* p - k for an integer k
RatSubInt(p, k) == Rat(p[1] - k * p[2], p[2])

RatNeg(p) == <<-p[1], p[2]>>

\* np.round: the nearest integer, a tie going to the even neighbour
NpRound(p) ==
    LET q == p[1] \div p[2]
        r == p[1] % p[2]
    IN  IF 2 * r < p[2] THEN q
        ELSE IF 2 * r > p[2] THEN q + 1
        ELSE IF q % 2 = 0 THEN q ELSE q + 1

RECURSIVE SeqSum(_)
SeqSum(s) == IF s = <<>> THEN 0 ELSE Head(s) + SeqSum(Tail(s))

SeqMin(s) == CHOOSE m \in {s[i] : i \in DOMAIN s} : \A i \in DOMAIN s : m <= s[i]

SeqMax(s) == CHOOSE m \in {s[i] : i \in DOMAIN s} : \A i \in DOMAIN s : m >= s[i]

\* data[::-1,:]
FlipRows(m) == [i \in 1..Len(m) |-> m[Len(m) + 1 - i]]

----------------------------------------------------------------------------
(* Spatial reference systems.  The raster's system is "europe_m"; "latlon" *)
(* is the default pointSRS.  A location's coordinates in a system are its  *)
(* europe_m coordinates moved by that system's offset.                     *)

SRS == {"europe_m", "latlon"}

SrsOffset(s) == IF s = "europe_m" THEN <<0, 0>> ELSE <<8, -4>>

\* osr.CoordinateTransformation(from, to) applied by pt.Transform(trx): the
\* coordinates are mapped from -> to whatever system the point itself is
\* tagged with, and the point is tagged with the target system
Transform(pt, from, to) ==
    [x   |-> pt.x - SrsOffset(from)[1] + SrsOffset(to)[1],
     y   |-> pt.y - SrsOffset(from)[2] + SrsOffset(to)[2],
     srs |-> to]

_pointGen(x, y, s) == [x |-> x, y |-> y, srs |-> s]

----------------------------------------------------------------------------
(* The raster dataset and rasterInfo *)

\* the cell at storage row i, column j (0-based); -1 stands for what a read
\* outside the band would give
Cell(ds, i, j) ==
    IF i >= 0 /\ i < ds.ySize /\ j >= 0 /\ j < ds.xSize
    THEN ds.data[i + 1][j + 1] ELSE -1

rasterInfo(ds) ==
    LET xMin == ds.xOrigin
        xMax == ds.xOrigin + 2 * ds.dx * ds.xSize
        top  == ds.dy < 0
        yMax == IF top THEN ds.yOrigin ELSE ds.yOrigin + 2 * ds.dy * ds.ySize
        yMin == IF top THEN ds.yOrigin + 2 * ds.dy * ds.ySize ELSE ds.yOrigin
        dy   == IF top THEN -1 * ds.dy ELSE ds.dy
    IN  [srs |-> ds.srs, dtype |-> ds.dtype, flipY |-> top, yAtTop |-> top,
         xMin |-> xMin, yMin |-> yMin, xMax |-> xMax, yMax |-> yMax,
         dx |-> ds.dx, dy |-> dy, pixelWidth |-> ds.dx, pixelHeight |-> dy,
         noData |-> ds.noData, xWinSize |-> ds.xSize, yWinSize |-> ds.ySize]

\* band.ReadAsArray(xoff, yoff, win_xsize, win_ysize)
ReadAsArray(ds, xoff, yoff, xwin, ywin) ==
    [i \in 1..ywin |-> [j \in 1..xwin |-> Cell(ds, yoff + i - 1, xoff + j - 1)]]

\* fetchMatrix(source): the whole band
fetchMatrix(ds) == ReadAsArray(ds, 0, 0, ds.xSize, ds.ySize)

----------------------------------------------------------------------------
(* pointValues *)

\* the points argument as a list of point geometries: a single geometry or
\* a list of geometries is used as it is, a pair or a list of pairs is
\* turned into new geometries tagged with pointSRS
ToGeometries(input) ==
    IF input.kind \in {"geom", "geoms"} THEN input.items
    ELSE [i \in 1..Len(input.items) |->
            _pointGen(input.items[i].x, input.items[i].y, input.pointSRS)]

\* the geometries the index is computed from: all of them are transformed
\* with the transformation built from the FIRST point's system when that
\* system differs from the raster's, none of them otherwise
CastToSourceSrs(pts, info) ==
    LET pointSRS == pts[1].srs
    IN  IF pointSRS # info.srs
        THEN [i \in 1..Len(pts) |-> Transform(pts[i], pts[1].srs, info.srs)]
        ELSE pts

xValues(info, x) == Rat(x - (info.xMin + info.pixelWidth), 2 * info.pixelWidth)

yValues(info, y) ==
    IF info.yAtTop
    THEN Rat((info.yMax - info.pixelWidth) - y, 2 * Abs(info.pixelHeight))
    ELSE Rat(y - (info.yMin + info.pixelWidth), 2 * info.pixelHeight)

yOffset(info, yVal) ==
    IF info.yAtTop
    THEN RatSubInt(yVal, NpRound(yVal))
    ELSE RatNeg(RatSubInt(yVal, NpRound(yVal)))

\* the located index and offset of one point (already in the raster's system)
Locate(info, pt) ==
    LET xVal == xValues(info, pt.x)
        yVal == yValues(info, pt.y)
    IN  [col  |-> NpRound(xVal),
         row  |-> NpRound(yVal),
         xOff |-> RatSubInt(xVal, NpRound(xVal)),
         yOff |-> yOffset(info, yVal)]

\* ExceedsLimits without the tests of the high sides
ExceedsLimitsLowOnly(xStarts, yStarts, window, info) ==
    \/ SeqMin(xStarts) < 0
    \/ SeqMin(yStarts) < 0

\* the test that raises "... exceeds the source's limits"
ExceedsLimits(xStarts, yStarts, window, info) ==
    \/ SeqMin(xStarts) < 0
    \/ SeqMin(yStarts) < 0
    \/ SeqMax(xStarts) + window > info.xWinSize
    \/ SeqMax(yStarts) + window > info.yWinSize

\* one pass of the read loop: the window of one point, top row first
ReadWindow(ds, info, xi, yi, window) ==
    LET data == ReadAsArray(ds, xi, yi, window, window)
    IN  IF ~info.yAtTop THEN FlipRows(data) ELSE data

Raised(e, pts, reads) ==
    [err |-> e, values |-> <<>>, offsets |-> <<>>, reads |-> reads, geoms |-> pts]

\* pointValues with the limits tested point by point inside the read loop:
\* the windows before the first offending point are read before it raises
pointValuesCheckPerPoint(ds, input, winRange) ==
    LET info == rasterInfo(ds)
        pts0 == ToGeometries(input)
    IN  IF Len(pts0) = 0 THEN Raised("FailedToLoadPoints", pts0, <<>>)
        ELSE
        LET pts     == CastToSourceSrs(pts0, info)
            n       == Len(pts)
            loc     == [i \in 1..n |-> Locate(info, pts[i])]
            xStarts == [i \in 1..n |-> loc[i].col - winRange]
            yStarts == [i \in 1..n |-> loc[i].row - winRange]
            window  == 2 * winRange + 1
            bad     == {i \in 1..n :
                          ExceedsLimits(<<xStarts[i]>>, <<yStarts[i]>>, window, info)}
            upto    == IF bad = {} THEN n
                       ELSE (CHOOSE i \in bad : \A k \in bad : i <= k) - 1
            reads   == [i \in 1..upto |->
                          [xoff |-> xStarts[i], yoff |-> yStarts[i], win |-> window]]
        IN  IF bad # {} THEN Raised("ExceedsLimits", pts, reads)
            ELSE [err     |-> "none",
                  values  |-> [i \in 1..n |->
                                 ReadWindow(ds, info, xStarts[i], yStarts[i], window)],
                  offsets |-> [i \in 1..n |-> <<loc[i].xOff, loc[i].yOff>>],
                  reads   |-> reads,
                  geoms   |-> pts]

\* pointValues(source, points, pointSRS, winRange): err is "none" when the
\* call returns (values, offsets); reads lists the band reads it made and
\* geoms the point geometries it worked on, as the call leaves them
pointValues(ds, input, winRange) ==
    LET info == rasterInfo(ds)
        pts0 == ToGeometries(input)
    IN  IF Len(pts0) = 0 THEN Raised("FailedToLoadPoints", pts0, <<>>)
        ELSE
        LET pts     == CastToSourceSrs(pts0, info)
            n       == Len(pts)
            loc     == [i \in 1..n |-> Locate(info, pts[i])]
            offsets == [i \in 1..n |-> <<loc[i].xOff, loc[i].yOff>>]
            xStarts == [i \in 1..n |-> loc[i].col - winRange]
            yStarts == [i \in 1..n |-> loc[i].row - winRange]
            window  == 2 * winRange + 1
        IN  IF ExceedsLimits(xStarts, yStarts, window, info)
            THEN Raised("ExceedsLimits", pts, <<>>)
            ELSE [err     |-> "none",
                  values  |-> [i \in 1..n |->
                                 ReadWindow(ds, info, xStarts[i], yStarts[i], window)],
                  offsets |-> offsets,
                  reads   |-> [i \in 1..n |->
                                 [xoff |-> xStarts[i], yoff |-> yStarts[i], win |-> window]],
                  geoms   |-> pts]

----------------------------------------------------------------------------
(* pointValue *)

Modes == {"near", "linear-spline", "cubic-spline", "average", "func"}

Reducers == {"sum"}

\* the caller's reducer kwargs["func"] applied to a window
ApplyFunc(f, z) == SeqSum([i \in 1..Len(z) |-> SeqSum(z[i])])

\* z.mean()
Mean(z) == Rat(SeqSum([i \in 1..Len(z) |-> SeqSum(z[i])]), Len(z) * Len(z))

\* RectBivariateSpline(y, x, z, kx, ky)(pt[1], pt[0]), kept symbolic; it is a
\* 1x1 array
RectBivariateSpline(z, k, pt) ==
    <<<<[spline |-> k, z |-> z, at |-> <<pt[2], pt[1]>>]>>>>

KwGet(kwargs, key, default) ==
    IF key \in DOMAIN kwargs THEN kwargs[key] ELSE default

\* what pointValue hands back for a list of per-point 1x1 results
Collapse(result) ==
    IF Len(result) = 1
    THEN [shape |-> "scalar", value |-> result[1][1][1]]
    ELSE [shape |-> "array", value |-> [i \in 1..Len(result) |-> result[i][1][1]]]

\* the same for the reducer's outputs, returned as they are
CollapseFunc(result) ==
    IF Len(result) = 1
    THEN [shape |-> "scalar", value |-> result[1]]
    ELSE [shape |-> "array", value |-> result]

PVRaised(e, pv) ==
    [err |-> e, ret |-> [shape |-> "none", value |-> <<>>],
     reads |-> pv.reads, funcCalls |-> 0, geoms |-> pv.geoms]

PVReturn(ret, pv, calls) ==
    [err |-> "none", ret |-> ret, reads |-> pv.reads, funcCalls |-> calls,
     geoms |-> pv.geoms]

\* a call that never reached pointValues
NoSampling(input) == [reads |-> <<>>, geoms |-> input.items]

Near(z, pt) == z
LinearSpline(z, pt) == RectBivariateSpline(z, 1, pt)
CubicSpline(z, pt) == RectBivariateSpline(z, 3, pt)
Average(z, pt) == <<<<Mean(z)>>>>

\* the reduction a sampling mode applies to one window z with offset pt
Reduce(mode, z, pt) ==
    IF mode = "near" THEN Near(z, pt)
    ELSE IF mode = "linear-spline" THEN LinearSpline(z, pt)
    ELSE IF mode = "cubic-spline" THEN CubicSpline(z, pt)
    ELSE Average(z, pt)

\* what a sampling mode does with the outcome pv of pointValues
ReduceAll(pv, mode) ==
    IF pv.err # "none" THEN PVRaised(pv.err, pv)
    ELSE PVReturn(Collapse([i \in 1..Len(pv.values) |->
                              Reduce(mode, pv.values[i], pv.offsets[i])]), pv, 0)

\* the branch of pointValue that samples with window range win and reduces
\* every window as the mode does; pointValues is called once
SampleAndReduce(ds, input, win, mode) ==
    CHOOSE r \in {ReduceAll(pv, mode) : pv \in {pointValues(ds, input, win)}} : TRUE

\* what mode 'func' does with the outcome pv of pointValues
FuncAll(pv, kwargs) ==
    IF pv.err # "none" THEN PVRaised(pv.err, pv)
    ELSE PVReturn(CollapseFunc([i \in 1..Len(pv.values) |->
                                  ApplyFunc(kwargs["func"], pv.values[i])]),
                  pv, Len(pv.values))

\* FuncAll with the test for the reducer made after the sampling
FuncAllLate(pv, kwargs) ==
    IF pv.err # "none" THEN PVRaised(pv.err, pv)
    ELSE IF ~("func" \in DOMAIN kwargs) THEN PVRaised("NoFuncGiven", pv)
    ELSE FuncAll(pv, kwargs)

\* FuncMode with the test for the reducer made after the sampling
FuncModeLateCheck(ds, input, kwargs) ==
    CHOOSE r \in {FuncAllLate(pv, kwargs) :
                    pv \in {pointValues(ds, input,
                                        KwGet(kwargs, "winRange", DefaultWin))}} : TRUE

FuncMode(ds, input, kwargs) ==
    IF ~("func" \in DOMAIN kwargs)
    THEN PVRaised("NoFuncGiven", NoSampling(input))
    ELSE CHOOSE r \in {FuncAll(pv, kwargs) :
                         pv \in {pointValues(ds, input,
                                             KwGet(kwargs, "winRange", DefaultWin))}} : TRUE

pointValue(ds, input, mode, kwargs) ==
    IF mode = "near" THEN SampleAndReduce(ds, input, 0, mode)
    ELSE IF mode = "linear-spline"
    THEN SampleAndReduce(ds, input, LinearWin, mode)
    ELSE IF mode = "cubic-spline"
    THEN SampleAndReduce(ds, input, CubicWin, mode)
    ELSE IF mode = "average"
    THEN SampleAndReduce(ds, input, KwGet(kwargs, "winRange", DefaultWin), mode)
    ELSE IF mode = "func" THEN FuncMode(ds, input, kwargs)
    ELSE PVRaised("ModeNotUnderstood", NoSampling(input))

----------------------------------------------------------------------------
(* createRaster, for an in-memory raster (output=None) *)

\* round(): Python's, a tie going to the even neighbour like np.round
PyRound(p) == NpRound(p)

\* An optional argument is a sequence: <<>> for None, <<v>> for the value v.
\* bounds is <<xMin, yMin, xMax, yMax>> (half units).  err is "none" when the
\* raster is returned.
createRaster(bounds, pixelWidth, pixelHeight, dtype, srs, noData, fill, data) ==
    LET cols  == PyRound(Rat(bounds[3] - bounds[1], 2 * pixelWidth))
        rows  == PyRound(Rat(bounds[4] - bounds[2], 2 * Abs(pixelHeight)))
        dt    == IF dtype # <<>> THEN dtype[1]
                 ELSE IF data # <<>> THEN data[1].dtype
                 ELSE "Byte"
        head  == [xOrigin |-> bounds[1], dx |-> Abs(pixelWidth),
                  yOrigin |-> bounds[4], dy |-> -1 * Abs(pixelHeight),
                  xSize |-> cols, ySize |-> rows, dtype |-> dt, srs |-> srs,
                  noData |-> noData]
        Filled(v) == [i \in 1..rows |-> [j \in 1..cols |-> v]]
        \* the band as the driver creates it
        band0 == Filled(0)
        \* if noDataValue is given and neither fill nor data: band.Fill(noDataValue)
        band1 == IF noData # <<>> /\ fill = <<>> /\ data = <<>>
                 THEN Filled(noData[1]) ELSE band0
        \* if data is None: band.Fill(0) or band.Fill(fillValue)
        band2 == IF fill = <<>> THEN Filled(0) ELSE Filled(fill[1])
    IN  IF data = <<>>
        THEN [err |-> "none", raster |-> <<head @@ [data |-> band2]>>]
        ELSE IF ~(Len(data[1].cells) = rows
                  /\ (rows = 0 \/ Len(data[1].cells[1]) = cols))
        THEN [err |-> "DimensionsDoNotMatch", raster |-> <<>>]
        ELSE [err |-> "none",
              raster |-> <<head @@
                  [data |-> IF pixelHeight < 0
                            THEN FlipRows(data[1].cells)
                            ELSE data[1].cells]>>]

----------------------------------------------------------------------------
(* gradient *)

GradientModes == {"total", "slope", "north-south", "east-west", "dir", "ew", "ns"}

\* a - b between two cells of an array of the band's type: numpy keeps the
\* array's type, so Byte cells subtract modulo 2^8
CellDiff(a, b, dtype) ==
    IF dtype = "Byte" THEN (a - b) % ByteModulus ELSE a - b

\* factor is [x |-> , y |-> ] for a pair and [v |-> ] for a scalar
xFactorOf(factor) == IF "x" \in DOMAIN factor THEN factor.x ELSE factor.v

yFactorOf(factor) == IF "y" \in DOMAIN factor THEN factor.y ELSE factor.v

Zero == <<0, 1>>

\* NorthSouth with one-sided differences in the first and last rows instead
\* of zeros
NorthSouthOneSided(arr, dtype, dy, yFactor) ==
    [i \in 1..Len(arr) |-> [j \in 1..Len(arr[i]) |->
        IF i > 1 /\ i < Len(arr)
        THEN Rat(CellDiff(arr[i + 1][j], arr[i - 1][j], dtype), 2 * dy * yFactor)
        ELSE IF Len(arr) = 1 THEN Zero
        ELSE IF i = 1
        THEN Rat(CellDiff(arr[2][j], arr[1][j], dtype), dy * yFactor)
        ELSE Rat(CellDiff(arr[i][j], arr[i - 1][j], dtype), dy * yFactor)]]

\* ns = np.zeros(arr.shape); ns[1:-1,:] = (arr[2:,:] - arr[:-2,:])/(2*dy*yFactor)
NorthSouth(arr, dtype, dy, yFactor) ==
    [i \in 1..Len(arr) |-> [j \in 1..Len(arr[i]) |->
        IF i > 1 /\ i < Len(arr)
        THEN Rat(CellDiff(arr[i + 1][j], arr[i - 1][j], dtype), 2 * dy * yFactor)
        ELSE Zero]]

\* EastWest with the difference taken the other way round
EastWestReversed(arr, dtype, dx, xFactor) ==
    [i \in 1..Len(arr) |-> [j \in 1..Len(arr[i]) |->
        IF j > 1 /\ j < Len(arr[i])
        THEN Rat(CellDiff(arr[i][j + 1], arr[i][j - 1], dtype), 2 * dx * xFactor)
        ELSE Zero]]

\* ew = np.zeros(arr.shape); ew[:,1:-1] = (arr[:,:-2] - arr[:,2:])/(2*dx*xFactor)
EastWest(arr, dtype, dx, xFactor) ==
    [i \in 1..Len(arr) |-> [j \in 1..Len(arr[i]) |->
        IF j > 1 /\ j < Len(arr[i])
        THEN Rat(CellDiff(arr[i][j - 1], arr[i][j + 1], dtype), 2 * dx * xFactor)
        ELSE Zero]]

\* np.sqrt(q), by its radicand
Sqrt(q) == [sqrt |-> q]

\* np.arctan2(y, x), by the direction of the ray (y, x): <<0, 1>> is the
\* angle 0 (also arctan2(0, 0)) and <<0, -1>> the angle pi
Arctan2(y, x) ==
    LET a == y[1] * x[2]
        b == x[1] * y[2]
        g == Gcd(Abs(a), Abs(b))
    IN  IF a = 0 /\ b = 0 THEN <<0, 1>> ELSE <<a \div g, b \div g>>

Pi == <<0, -1>>

\* which of the statements "output = ..." of gradient run for a mode
ComputesNs(mode) == mode \in {"north-south", "ns", "total", "slope", "dir"}

ComputesEw(mode) == mode \in {"east-west", "total", "slope", "dir"}

\* the matrix bound to 'output' when gradient reaches "Done!", <<>> when no
\* statement has bound it
GradientOutput(arr, info, mode, factor) ==
    LET ns == NorthSouth(arr, info.dtype, info.dy, yFactorOf(factor))
        ew == EastWest(arr, info.dtype, info.dx, xFactorOf(factor))
        each(F(_, _)) ==
            <<[i \in 1..Len(arr) |-> [j \in 1..Len(arr[i]) |-> F(ns[i][j], ew[i][j])]]>>
        total(n, e) == Sqrt(RatAdd(RatMul(n, n), RatMul(e, e)))
        dir(n, e) == Arctan2(n, e)
        onlyNs(n, e) == n
        onlyEw(n, e) == e
        \* the value of 'output' after each of the four statements in turn
        out1 == IF ComputesNs(mode) /\ mode \in {"north-south", "ns"}
                THEN each(onlyNs) ELSE <<>>
        out2 == IF ComputesEw(mode) /\ mode \in {"east-west", "ew"}
                THEN each(onlyEw) ELSE out1
        out3 == IF mode = "total" \/ mode = "slope" THEN each(total) ELSE out2
        out4 == IF mode = "dir" THEN each(dir) ELSE out3
    IN  out4

\* gradient(source, mode, factor, asMatrix): err is "none" when it returns;
\* matrix holds the returned matrix (asMatrix) and created the returned
\* raster (not asMatrix); reads counts the reads of the band
gradient(ds, mode, factor, asMatrix) ==
    IF ~(mode \in GradientModes)
    THEN [err |-> "ValueError", matrix |-> <<>>, created |-> <<>>, reads |-> 0]
    ELSE
    LET info   == rasterInfo(ds)
        arr    == fetchMatrix(ds)
        output == GradientOutput(arr, info, mode, factor)
    IN  IF output = <<>>
        THEN [err |-> "UnboundLocalError", matrix |-> <<>>, created |-> <<>>,
              reads |-> 1]
        ELSE IF asMatrix
        THEN [err |-> "none", matrix |-> output, created |-> <<>>, reads |-> 1]
        ELSE LET made == createRaster(
                            <<info.xMin, info.yMin, info.xMax, info.yMax>>,
                            info.dx, info.dy, <<>>, info.srs, <<>>, <<>>,
                            <<[dtype |-> "Float64", cells |-> output[1]]>>)
             IN  [err |-> made.err, matrix |-> <<>>, created |-> made.raster,
                  reads |-> 1]

----------------------------------------------------------------------------
(* mutateValues, for an in-memory result (output=None) *)

\* the processors handed to mutateValues: "none" is processor=None; "double"
\* keeps the shape; "transpose" and "addColumn" return another shape
\* (transpose keeps it on a square array)
Processors == {"none", "double", "transpose", "addColumn"}

\* processor(sourceData)
Process(processor, arr) ==
    IF processor = "double"
    THEN [i \in 1..Len(arr) |-> [j \in 1..Len(arr[i]) |-> 2 * arr[i][j]]]
    ELSE IF processor = "transpose"
    THEN [j \in 1..Len(arr[1]) |-> [i \in 1..Len(arr) |-> arr[i][j]]]
    ELSE IF processor = "addColumn"
    THEN [i \in 1..Len(arr) |-> Append(arr[i], 0)]
    ELSE arr

\* ndarray.shape of a matrix with at least one row
Shape(arr) == <<Len(arr), Len(arr[1])>>

\* mutateValues(source, processor, dtype): err is "none" when the new raster
\* is returned.  The raise statement of the shape test builds its message
\* from the name rawSuitability, which nothing defines: evaluating it
\* raises NameError and the GeoKitRasterError is never constructed.
mutateValues(ds, processor, dtype) ==
    LET dsInfo        == rasterInfo(ds)
        sourceData    == fetchMatrix(ds)
        processed     == Process(processor, sourceData)
        processedType == IF dtype # <<>> THEN dtype[1] ELSE ds.dtype
    IN  IF Shape(processed) # Shape(sourceData)
        THEN [err |-> "NameError", raster |-> <<>>]
        ELSE createRaster(
                 <<dsInfo.xMin, dsInfo.yMin, dsInfo.xMax, dsInfo.yMax>>,
                 dsInfo.dx, dsInfo.dy, <<>>, dsInfo.srs, <<>>, <<>>,
                 <<[dtype |-> processedType,
                    cells |-> IF ~dsInfo.yAtTop THEN FlipRows(processed)
                              ELSE processed]>>)

----------------------------------------------------------------------------
(* The rasters and the calls of the model *)

CellSizes == {1, 2}

DTypes == {"Byte", "Float64"}

\* the cell values of a source, by storage row i and column j (0-based):
\* "ramp" rises eastward (v[i,j] = j), "rid" gives every cell its own value,
\* falling with the row and rising with the column, "prod" (v[i,j] = i*j)
\* has an east-west slope that grows with the row
Pattern(name, i, j, rows, cols) ==
    IF name = "ramp" THEN j
    ELSE IF name = "prod" THEN i * j
    ELSE (rows - 1 - i) * cols + j

\* a dataset as GDAL holds it: the geotransform (origin in half units,
\* signed dy), the band's size, type and cells
MakeRaster(cols, rows, dx, dy, top, dtype, pattern) ==
    [xOrigin |-> -2, dx |-> dx,
     yOrigin |-> IF top THEN 6 + 2 * dy * rows ELSE 6,
     dy |-> IF top THEN -1 * dy ELSE dy,
     xSize |-> cols, ySize |-> rows, dtype |-> dtype, srs |-> "europe_m",
     noData |-> <<>>,
     data |-> [i \in 1..rows |-> [j \in 1..cols |->
                 Pattern(pattern, i - 1, j - 1, rows, cols)]]]

SmallShapes == (1..MaxCols) \X (1..MaxRows)

BigShape == <<2 * CubicWin + 1, 2 * CubicWin + 1>>

\* the sources the model runs on: every small shape with every cell size in
\* the Byte type with distinct cells, the unit-cell ramps in both types, the
\* unit-cell 9x9 raster that holds a cubic-spline window, and the two-row
\* raster whose rows have different slopes
Sources ==
    {MakeRaster(sh[1], sh[2], dx, dy, top, "Byte", "rid") :
        sh \in SmallShapes, dx \in CellSizes, dy \in CellSizes, top \in BOOLEAN}
    \cup
    {MakeRaster(sh[1], sh[2], 1, 1, top, dt, "ramp") :
        sh \in SmallShapes, top \in BOOLEAN, dt \in DTypes}
    \cup
    {MakeRaster(BigShape[1], BigShape[2], 1, 1, top, "Float64", "rid") :
        top \in BOOLEAN}
    \cup
    {MakeRaster(MaxCols, 2, 1, 1, top, "Float64", "prod") : top \in BOOLEAN}

\* positions along an axis of n cells, counted in half cells from the low
\* edge: odd k is the centre of cell (k-1)/2, even k an edge between cells;
\* -1 and 2n+1 are the centres of the cells just outside
AxisK(n) == {-1, 2 * n + 1} \cup {k \in 0..(2 * n) : Abs(k - n) <= 4}

XAxisK(n) == {k \in AxisK(n) : k % 2 = 1 \/ k = 2}

MidK(n) == IF n % 2 = 1 THEN n ELSE n - 1

\* the coordinate pair (x, y), in system s, of the location kx half cells
\* east of the raster's west edge and ky half cells north of its south edge
At(ds, kx, ky, s) ==
    LET info == rasterInfo(ds)
    IN  [x |-> info.xMin + kx * info.dx + SrsOffset(s)[1],
         y |-> info.yMin + ky * info.dy + SrsOffset(s)[2]]

GeomAt(ds, k, s) ==
    LET xy == At(ds, k[1], k[2], s) IN _pointGen(xy.x, xy.y, s)

AllK(ds) == XAxisK(ds.xSize) \X AxisK(ds.ySize)

\* the locations batches are built from: one outside the raster, the centre
\* of the middle cell, and the point half a cell north of it
BatchK(ds) ==
    {<<-1, -1>>, <<MidK(ds.xSize), MidK(ds.ySize)>>,
     <<MidK(ds.xSize), MidK(ds.ySize) + 1>>}

SeqsUpTo(S, n) == UNION {[1..k -> S] : k \in 0..n}

\* the points arguments: a pair, a geometry, a list of pairs, a list of
\* geometries (each geometry with its own system)
Inputs(ds) ==
    {[kind |-> "tuple", items |-> <<At(ds, k[1], k[2], "europe_m")>>,
      pointSRS |-> "europe_m"] : k \in AllK(ds)}
    \cup
    {[kind |-> "tuple", items |-> <<At(ds, k[1], k[2], "latlon")>>,
      pointSRS |-> "latlon"] : k \in BatchK(ds)}
    \cup
    {[kind |-> "geom", items |-> <<GeomAt(ds, k, s)>>, pointSRS |-> "latlon"] :
        k \in BatchK(ds), s \in SRS}
    \cup
    UNION {{[kind |-> "tuples",
             items |-> [i \in DOMAIN ks |-> At(ds, ks[i][1], ks[i][2], s)],
             pointSRS |-> s] : ks \in SeqsUpTo(BatchK(ds), MaxPoints)} : s \in SRS}
    \cup
    {[kind |-> "geoms",
      items |-> [i \in DOMAIN ks |-> GeomAt(ds, ks[i][1], ks[i][2])],
      pointSRS |-> "latlon"] : ks \in SeqsUpTo(BatchK(ds) \X SRS, MaxPoints)}

WinRanges == {0, 1}

NoKwargs == [k \in {} |-> 0]

\* the mode strings tried, one of them ("cubic") not a mode, with the
\* keyword arguments passed along
ModeCalls ==
    {<<m, NoKwargs>> : m \in Modes \cup {"cubic"}}
    \cup {<<"average", [winRange |-> 1]>>}
    \cup {<<"func", [func |-> f]>> : f \in Reducers}
    \cup {<<"func", [func |-> f, winRange |-> 1]>> : f \in Reducers}

Factors == {[v |-> 1], [v |-> 2], [x |-> 1, y |-> 2]}

\* the optional noDataValue and fillValue arguments of createRaster
NoDataValues == {<<>>, <<7>>}

FillValues == {<<>>, <<5>>}

\* the optional data argument of createRaster: no matrix, or a Float64
\* matrix of any small shape whose cells are all different
DataArgs ==
    {<<>>} \cup
    {<<[dtype |-> "Float64",
        cells |-> [i \in 1..sh[2] |-> [j \in 1..sh[1] |->
                     Pattern("rid", i - 1, j - 1, sh[2], sh[1])]]]>> :
        sh \in SmallShapes}

\* the caller's point objects after a sampling call: geometries handed in
\* are the objects the call worked on, pairs are left as they were
PointsAfter(input, geoms) ==
    IF input.kind \in {"geom", "geoms"} THEN geoms ELSE input.items

Idle == op.name = "none"

Init ==
    /\ raster \in Sources
    /\ op = [name |-> "none"]
    /\ points = <<>>
    /\ res = [err |-> "none"]

PointValues ==
    /\ Idle
    /\ \E input \in Inputs(raster), w \in WinRanges :
         \E r \in {pointValues(raster, input, w)} :
             /\ op' = [name |-> "pointValues", input |-> input, winRange |-> w]
             /\ points' = PointsAfter(input, r.geoms)
             /\ res' = r
    /\ UNCHANGED raster

PointValue ==
    /\ Idle
    /\ \E input \in Inputs(raster), mc \in ModeCalls :
         \E r \in {pointValue(raster, input, mc[1], mc[2])} :
             /\ op' = [name |-> "pointValue", input |-> input, mode |-> mc[1],
                       kwargs |-> mc[2]]
             /\ points' = PointsAfter(input, r.geoms)
             /\ res' = r
    /\ UNCHANGED raster

Gradient ==
    /\ Idle
    /\ \E mode \in GradientModes \cup {"aspect"}, factor \in Factors,
          asMatrix \in BOOLEAN :
         /\ op' = [name |-> "gradient", mode |-> mode, factor |-> factor,
                   asMatrix |-> asMatrix]
         /\ res' = gradient(raster, mode, factor, asMatrix)
    /\ UNCHANGED <<raster, points>>

MutateValues ==
    /\ Idle
    /\ \E processor \in Processors, dtype \in {<<>>, <<"Float64">>} :
         /\ op' = [name |-> "mutateValues", processor |-> processor,
                   dtype |-> dtype]
         /\ res' = mutateValues(raster, processor, dtype)
    /\ UNCHANGED <<raster, points>>

\* createRaster over the extent and with the cell size of the raster at
\* hand, pixelHeight given with either sign
CreateRaster ==
    /\ Idle
    /\ \E up \in BOOLEAN, noData \in NoDataValues, fill \in FillValues,
          data \in DataArgs :
         LET info == rasterInfo(raster)
             pixelHeight == IF up THEN info.dy ELSE -1 * info.dy
         IN  /\ op' = [name |-> "createRaster", pixelHeight |-> pixelHeight,
                       noData |-> noData, fill |-> fill, data |-> data]
             /\ res' = createRaster(
                           <<info.xMin, info.yMin, info.xMax, info.yMax>>,
                           info.dx, pixelHeight, <<>>, info.srs, noData, fill,
                           data)
    /\ UNCHANGED <<raster, points>>

Next == PointValues \/ PointValue \/ Gradient \/ MutateValues \/ CreateRaster

Spec == Init /\ [][Next]_vars

----------------------------------------------------------------------------
(* What the claims speak of *)

IsSampling == op.name \in {"pointValues", "pointValue"}

\* the geographic centre (half units, raster's system) of the cell stored
\* at column c, row r
CellCentre(ds, c, r) ==
    LET info == rasterInfo(ds)
    IN  <<info.xMin + (2 * c + 1) * info.dx,
          IF info.yAtTop THEN info.yMax - (2 * r + 1) * info.dy
                         ELSE info.yMin + (2 * r + 1) * info.dy>>

\* the points of the last sampling call as pointValues locates them
Located ==
    LET info == rasterInfo(raster)
        pts  == CastToSourceSrs(ToGeometries(op.input), info)
    IN  [i \in 1..Len(pts) |-> Locate(info, pts[i])]

\* a window of radius w round the index (col, row) leaves the grid
WindowExceeds(l, w) ==
    \/ l.col - w < 0
    \/ l.row - w < 0
    \/ l.col + w >= raster.xSize
    \/ l.row + w >= raster.ySize

\* the same raster stored the other way up: same extent, same value at
\* every geographic place
OtherOrientation(ds) ==
    [ds EXCEPT !.dy = -1 * ds.dy,
               !.yOrigin = ds.yOrigin + 2 * ds.dy * ds.ySize,
               !.data = FlipRows(ds.data)]

\* every point of the last call is tagged with the raster's system
InRasterSrs ==
    LET pts == ToGeometries(op.input)
    IN  \A i \in 1..Len(pts) : pts[i].srs = raster.srs

\* every point of the last call lies within the raster's extent
WithinExtent ==
    LET info == rasterInfo(raster)
        pts  == ToGeometries(op.input)
    IN  \A i \in 1..Len(pts) :
            /\ info.xMin <= pts[i].x /\ pts[i].x <= info.xMax
            /\ info.yMin <= pts[i].y /\ pts[i].y <= info.yMax

----------------------------------------------------------------------------
(* C1: pointValue in mode 'near', called with the single point at the      *)
(* exact geographic centre of cell (c, r), given in the raster's own       *)
(* system, returns the value stored for that cell - for every cell size    *)
(* and either orientation.                                                 *)
C1_NearestIdentity ==
    (/\ op.name = "pointValue" /\ op.mode = "near"
     /\ op.input.kind \in {"tuple", "geom"}
     /\ InRasterSrs)
    => \A c \in 0..(raster.xSize - 1), r \in 0..(raster.ySize - 1) :
          LET pt == ToGeometries(op.input)[1]
          IN  <<pt.x, pt.y>> = CellCentre(raster, c, r)
              => /\ res.err = "none"
                 /\ res.ret = [shape |-> "scalar", value |-> Cell(raster, r, c)]

(* C2: for a call of pointValues whose points lie within the extent (row   *)
(* boundaries included), the same call on the raster stored the other way  *)
(* up gives the same outcome: the same windows, top row first, and the     *)
(* same offsets.                                                           *)
C2_OrientationIndependent ==
    (/\ op.name = "pointValues" /\ Len(op.input.items) >= 1
     /\ InRasterSrs /\ WithinExtent)
    => LET other == pointValues(OtherOrientation(raster), op.input, op.winRange)
       IN  /\ res.err = other.err
           /\ res.values = other.values
           /\ res.offsets = other.offsets

(* C3: when the window of at least one point of the batch leaves the grid, *)
(* pointValues raises the out-of-bounds error, has read no window from the *)
(* band and returns no window and no offset, wherever that point sits.     *)
C3_BatchAtomicity ==
    (/\ op.name = "pointValues" /\ Len(op.input.items) >= 1
     /\ \E i \in DOMAIN Located : WindowExceeds(Located[i], op.winRange))
    => /\ res.err = "ExceedsLimits"
       /\ res.reads = <<>>
       /\ res.values = <<>>
       /\ res.offsets = <<>>

\* a batch whose first point is fine and whose last point is out of bounds
\* was refused
C3_Witness ==
    /\ op.name = "pointValues" /\ Len(op.input.items) >= 2
    /\ ~WindowExceeds(Located[1], op.winRange)
    /\ WindowExceeds(Located[Len(op.input.items)], op.winRange)
    /\ res.err = "ExceedsLimits"

(* C4: pointValues raises the out-of-bounds error exactly when some        *)
(* point's index (col, row) and the radius w have col - w < 0 or           *)
(* row - w < 0 or col + w >= colCount or row + w >= rowCount; the windows  *)
(* of a call that returns are full (2w+1) x (2w+1) blocks of cells of the  *)
(* grid: nothing clamped, shrunk or padded.                                *)
C4_BoundsPredicate ==
    (op.name = "pointValues" /\ Len(op.input.items) >= 1)
    => LET w == op.winRange
           n == Len(op.input.items)
           top == rasterInfo(raster).yAtTop
       IN  /\ res.err = "ExceedsLimits"
                <=> \E i \in 1..n : WindowExceeds(Located[i], w)
           /\ res.err \in {"ExceedsLimits", "none"}
           /\ res.err = "none" =>
                /\ Len(res.values) = n
                /\ \A i \in 1..n :
                     /\ Len(res.values[i]) = 2 * w + 1
                     /\ \A a \in 1..(2 * w + 1) :
                          /\ Len(res.values[i][a]) = 2 * w + 1
                          /\ \A b \in 1..(2 * w + 1) :
                               LET col == Located[i].col - w + (b - 1)
                                   row == IF top THEN Located[i].row - w + (a - 1)
                                                 ELSE Located[i].row + w - (a - 1)
                               IN  /\ 0 <= col /\ col < raster.xSize
                                   /\ 0 <= row /\ row < raster.ySize
                                   /\ res.values[i][a][b] = raster.data[row + 1][col + 1]

\* two windows of radius 1 were returned
C4_Witness ==
    /\ op.name = "pointValues" /\ op.winRange = 1
    /\ res.err = "none"
    /\ Len(res.values) = 2
    /\ Len(res.values[2]) = 3

\* the call of pointValue on the i-th point of the last call alone, given
\* the way a single point is given
AloneValue(i) ==
    LET one == [kind     |-> IF op.input.kind = "tuples" THEN "tuple" ELSE "geom",
                items    |-> <<op.input.items[i]>>,
                pointSRS |-> op.input.pointSRS]
    IN  pointValue(raster, one, op.mode, op.kwargs).ret.value

(* C5: pointValue called with one point that is not wrapped in a sequence  *)
(* returns a bare scalar; called with a sequence of n >= 1 points, in any  *)
(* mode, it returns a sequence of exactly n results, the i-th being the    *)
(* result for the i-th point.                                              *)
C5_ResultShape ==
    (op.name = "pointValue" /\ res.err = "none")
    => IF op.input.kind \in {"tuple", "geom"}
       THEN res.ret.shape = "scalar"
       ELSE /\ res.ret.shape = "array"
            /\ Len(res.ret.value) = Len(op.input.items)
            /\ InRasterSrs =>
                 \A i \in 1..Len(op.input.items) : res.ret.value[i] = AloneValue(i)

----------------------------------------------------------------------------
IsMatrixCall == op.name = "gradient" /\ op.asMatrix

\* the source band as gradient reads it
Arr == fetchMatrix(raster)

\* the matrix the last gradient call returned
Out == res.matrix[1]

SameShape(m, arr) ==
    /\ Len(m) = Len(arr)
    /\ \A i \in 1..Len(arr) : Len(m[i]) = Len(arr[i])

(* C6: for a grid of any shape (fewer than three rows or columns           *)
(* included) the matrix gradient returns has the grid's shape; its first   *)
(* and last rows are exactly zero in north-south mode and its first and    *)
(* last columns exactly zero in east-west mode.                            *)
C6_GradientBoundary ==
    (IsMatrixCall /\ op.mode \in {"north-south", "ns", "east-west"})
    => /\ res.err = "none"
       /\ SameShape(Out, Arr)
       /\ op.mode \in {"north-south", "ns"} =>
            \A j \in 1..raster.xSize :
                Out[1][j] = Zero /\ Out[raster.ySize][j] = Zero
       /\ op.mode = "east-west" =>
            \A i \in 1..raster.ySize :
                Out[i][1] = Zero /\ Out[i][raster.xSize] = Zero

\* a north-south gradient with zero border rows round a non-zero row
C6_Witness ==
    /\ IsMatrixCall /\ op.mode = "north-south"
    /\ res.err = "none"
    /\ raster.ySize = 3
    /\ Out[1][1] = Zero /\ Out[3][1] = Zero
    /\ Out[2][1] # Zero

(* C7: at every cell (i, j) outside the first and last row the             *)
(* north-south component is (v[i+1,j] - v[i-1,j]) / (2*cellHeight*yFactor) *)
(* and at every cell outside the first and last column the east-west       *)
(* component is (v[i,j-1] - v[i,j+1]) / (2*cellWidth*xFactor); a scalar    *)
(* factor serves both axes, a pair gives (xFactor, yFactor); 'total' and   *)
(* 'slope' are sqrt(ns^2 + ew^2).                                          *)
C7_GradientFormula ==
    (IsMatrixCall /\ res.err = "none")
    => LET info == rasterInfo(raster)
           xF   == IF "x" \in DOMAIN op.factor THEN op.factor.x ELSE op.factor.v
           yF   == IF "y" \in DOMAIN op.factor THEN op.factor.y ELSE op.factor.v
           ns(i, j) == Rat(Arr[i + 1][j] - Arr[i - 1][j], 2 * info.pixelHeight * yF)
           ew(i, j) == Rat(Arr[i][j - 1] - Arr[i][j + 1], 2 * info.pixelWidth * xF)
           innerRow(i) == i > 1 /\ i < raster.ySize
           innerCol(j) == j > 1 /\ j < raster.xSize
       IN  \A i \in 1..raster.ySize, j \in 1..raster.xSize :
             /\ (op.mode \in {"north-south", "ns"} /\ innerRow(i))
                  => Out[i][j] = ns(i, j)
             /\ (op.mode \in {"east-west", "ew"} /\ innerCol(j))
                  => Out[i][j] = ew(i, j)
             /\ (op.mode \in {"total", "slope"} /\ innerRow(i) /\ innerCol(j))
                  => Out[i][j] = Sqrt(RatAdd(RatMul(ns(i, j), ns(i, j)),
                                             RatMul(ew(i, j), ew(i, j))))

----------------------------------------------------------------------------
\* the source is the planar ramp rising eastward, v[i,j] = j, with
\* cellWidth 1
IsEastRamp ==
    /\ raster.dx = 1
    /\ \A i \in 1..raster.ySize, j \in 1..raster.xSize : raster.data[i][j] = j - 1

IsRampDirCall ==
    /\ IsMatrixCall /\ op.mode = "dir" /\ op.factor = [v |-> 1]
    /\ IsEastRamp

----------------------------------------------------------------------------
\* the mode an alias stands for
Canonical(mode) ==
    IF mode = "ew" THEN "east-west"
    ELSE IF mode = "ns" THEN "north-south"
    ELSE IF mode = "slope" THEN "total"
    ELSE mode

(* C9: every mode string gradient accepts produces a result, and 'ew'      *)
(* gives what 'east-west' gives, 'ns' what 'north-south' gives, 'slope'    *)
(* what 'total' gives.                                                     *)
C9_ModeAliases ==
    (op.name = "gradient" /\ op.mode \in GradientModes)
    => /\ res.err = "none"
       /\ res = gradient(raster, Canonical(op.mode), op.factor, op.asMatrix)

----------------------------------------------------------------------------
(* C10: pointValue with a mode string that is no mode, or with mode 'func' *)
(* and no 'func' reducer, and gradient with a mode string that is no mode, *)
(* raise an error before any cell of the raster is read and before any     *)
(* reducer is called; nothing is returned.                                 *)
C10_ModeValidation ==
    /\ (/\ op.name = "pointValue"
        /\ \/ op.mode \notin Modes
           \/ op.mode = "func" /\ "func" \notin DOMAIN op.kwargs)
       => /\ res.err \in {"ModeNotUnderstood", "NoFuncGiven"}
          /\ res.reads = <<>>
          /\ res.funcCalls = 0
          /\ res.ret.shape = "none"
    /\ (op.name = "gradient" /\ op.mode \notin GradientModes)
       => /\ res.err = "ValueError"
          /\ res.reads = 0
          /\ res.matrix = <<>> /\ res.created = <<>>

\* mode 'func' was asked for without a reducer, on a point whose window
\* the raster holds
C10_Witness ==
    /\ op.name = "pointValue" /\ op.mode = "func"
    /\ "func" \notin DOMAIN op.kwargs
    /\ Len(op.input.items) >= 1
    /\ \A i \in 1..Len(Located) :
         ~WindowExceeds(Located[i], KwGet(op.kwargs, "winRange", DefaultWin))
    /\ res.err = "NoFuncGiven"

----------------------------------------------------------------------------
\* the points of the last call, each expressed in the raster's system by
\* the transformation from its own system
EachInRasterSrs ==
    LET pts == ToGeometries(op.input)
    IN  [i \in 1..Len(pts) |->
           IF pts[i].srs # raster.srs
           THEN Transform(pts[i], pts[i].srs, raster.srs)
           ELSE pts[i]]

(* C11: for every batch of point geometries, each with its own system,     *)
(* pointValues locates every point from its coordinates in the raster's    *)
(* system: a point of another system is reprojected from its own system,   *)
(* a point of the raster's system is used unchanged, whatever the system   *)
(* of the first point of the batch.                                        *)
C11_ReprojectionOfEveryPoint ==
    (op.name = "pointValues" /\ Len(op.input.items) >= 1)
    => LET info  == rasterInfo(raster)
           n     == Len(op.input.items)
           loc   == [i \in 1..n |-> Locate(info, EachInRasterSrs[i])]
           bad   == \E i \in 1..n : WindowExceeds(loc[i], op.winRange)
       IN  IF bad THEN res.err = "ExceedsLimits"
           ELSE /\ res.err = "none"
                /\ \A i \in 1..n :
                     /\ res.reads[i].xoff = loc[i].col - op.winRange
                     /\ res.reads[i].yoff = loc[i].row - op.winRange
                     /\ res.offsets[i] = <<loc[i].xOff, loc[i].yOff>>

----------------------------------------------------------------------------
\* the errors that are the raster-domain error, GeoKitRasterError
RasterErrors ==
    {"FailedToLoadPoints", "ExceedsLimits", "NoFuncGiven", "ModeNotUnderstood",
     "DimensionsDoNotMatch"}

\* the shape createRaster gives the raster of the last createRaster call
CreatedShape ==
    LET info == rasterInfo(raster) IN <<info.yWinSize, info.xWinSize>>

(* C12: mutateValues with a processor whose result has another shape than  *)
(* the source's array fails with the raster-domain error and with no other *)
(* kind of failure; createRaster fails with that kind of error when the    *)
(* data matrix's shape is not (rows, cols).                                *)
C12_DimensionMismatchError ==
    /\ (/\ op.name = "mutateValues"
        /\ Shape(Process(op.processor, fetchMatrix(raster)))
             # Shape(fetchMatrix(raster)))
       => res.err \in RasterErrors
    /\ (/\ op.name = "createRaster"
        /\ op.data # <<>>
        /\ Shape(op.data[1].cells) # CreatedShape)
       => res.err \in RasterErrors

----------------------------------------------------------------------------
\* the integer k is a nearest integer to the quotient q
IsNearest(k, q) == 2 * Abs(q[1] - k * q[2]) <= q[2]

\* the quotient q lies in [-1/2, 1/2]
InHalfRange(q) == 2 * Abs(q[1]) <= q[2]

\* the continuous row index of the height y: (distance from the edge of row
\* 0) / cellHeight - 0.5, row 0 lying at the top edge of a y-at-top raster
\* and at the bottom edge otherwise
RowValue(info, y) ==
    IF info.yAtTop
    THEN Rat((info.yMax - y) - info.pixelHeight, 2 * info.pixelHeight)
    ELSE Rat((y - info.yMin) - info.pixelHeight, 2 * info.pixelHeight)

(* C13: pointValues locates the column of every point as a nearest integer *)
(* to xVal = (x - origin.x)/cellWidth - 0.5 and returns the x offset       *)
(* xVal - col; it locates the row in the same way from                     *)
(* yVal = (distance from row 0's edge)/cellHeight - 0.5 and returns        *)
(* yVal - row up to the orientation's sign; both components of every       *)
(* offset lie in [-0.5, 0.5].                                              *)
C13_SubPixelOffsetRange ==
    (op.name = "pointValues" /\ res.err = "none")
    => LET info == rasterInfo(raster)
       IN  \A i \in 1..Len(res.offsets) :
             LET pt   == res.geoms[i]
                 xVal == Rat((pt.x - info.xMin) - info.pixelWidth,
                             2 * info.pixelWidth)
                 yVal == RowValue(info, pt.y)
                 col  == res.reads[i].xoff + op.winRange
                 row  == res.reads[i].yoff + op.winRange
                 off  == res.offsets[i]
             IN  /\ IsNearest(col, xVal)
                 /\ off[1] = RatSubInt(xVal, col)
                 /\ IsNearest(row, yVal)
                 /\ off[2] \in {RatSubInt(yVal, row), RatNeg(RatSubInt(yVal, row))}
                 /\ InHalfRange(off[1]) /\ InHalfRange(off[2])

----------------------------------------------------------------------------
(* C14: a call of pointValues or pointValue, whether it returns or raises, *)
(* leaves the raster's cells as they were and leaves every point geometry  *)
(* the caller handed in with the coordinates and the system tag it had     *)
(* before the call, also when the points are given in another system than  *)
(* the raster's.                                                           *)
C14_NoSideEffects ==
    /\ [][IsSampling' => raster' = raster]_vars
    /\ [](IsSampling => points = op.input.items)

----------------------------------------------------------------------------
(* C15: on a raster of an unsigned integer type (Byte) the differences     *)
(* v[i+1,j] - v[i-1,j] and v[i,j-1] - v[i,j+1] gradient uses are the true  *)
(* signed differences, never wrapped modulo 2^8: where the values fall     *)
(* along the axis the component is negative, of the true magnitude.        *)
C15_NoWrapAround ==
    (/\ IsMatrixCall /\ res.err = "none"
     /\ raster.dtype = "Byte"
     /\ op.mode \in {"north-south", "ns", "east-west"})
    => LET info == rasterInfo(raster)
           d(i, j) == IF op.mode = "east-west"
                      THEN Arr[i][j - 1] - Arr[i][j + 1]
                      ELSE Arr[i + 1][j] - Arr[i - 1][j]
           by      == IF op.mode = "east-west"
                      THEN 2 * info.dx * xFactorOf(op.factor)
                      ELSE 2 * info.dy * yFactorOf(op.factor)
           inner(i, j) == IF op.mode = "east-west"
                          THEN j > 1 /\ j < raster.xSize
                          ELSE i > 1 /\ i < raster.ySize
       IN  \A i \in 1..raster.ySize, j \in 1..raster.xSize :
             inner(i, j) =>
               /\ Out[i][j] = Rat(d(i, j), by)
               /\ d(i, j) < 0 => Out[i][j][1] < 0

----------------------------------------------------------------------------
\* every cell of the raster the last createRaster call returned holds v
EveryCellIs(v) ==
    LET made == res.raster[1]
    IN  \A i \in 1..made.ySize, j \in 1..made.xSize : made.data[i][j] = v

(* C16: createRaster called with a noData value and with neither a fill    *)
(* value nor a data matrix returns a raster whose every cell holds the     *)
(* noData value; called with a fill value (and no data matrix) it returns  *)
(* a raster whose every cell holds the fill value.                         *)
C16_NoDataInitialFill ==
    (op.name = "createRaster" /\ op.data = <<>> /\ res.err = "none")
    => /\ (op.noData # <<>> /\ op.fill = <<>>) => EveryCellIs(op.noData[1])
       /\ op.fill # <<>> => EveryCellIs(op.fill[1])

----------------------------------------------------------------------------
\* the row of a y-at-top raster that covers the place storage row i of the
\* source covers (rows 1-based)
RowFromTop(ds, i) == IF ds.dy < 0 THEN i ELSE ds.ySize + 1 - i

(* C17: the raster gradient returns (asMatrix=False), which createRaster   *)
(* writes y-at-top over the source's extent, holds in the cell covering    *)
(* any place the gradient value computed for the source cell covering      *)
(* that place, also when the source is stored y-at-bottom.                 *)
C17_GradientRasterAlignment ==
    (op.name = "gradient" /\ ~op.asMatrix /\ res.err = "none")
    => LET made == res.created[1]
           m    == gradient(raster, op.mode, op.factor, TRUE).matrix[1]
       IN  /\ made.dy < 0
           /\ made.xSize = raster.xSize /\ made.ySize = raster.ySize
           /\ \A i \in 1..raster.ySize, j \in 1..raster.xSize :
                made.data[RowFromTop(raster, i)][j] = m[i][j]

====
